---- MODULE Spec2Model ----
(***************************************************************************)
(* Model of package/lib/compileFunctions.js of the Google Cloud Functions  *)
(* plugin: compileFunctions() walks the declared functions in order,       *)
(* validates each one, builds its deployment-manager template and pushes   *)
(* it onto provider.compiledConfigurationTemplate.resources.               *)
(*                                                                         *)
(* JavaScript values are tagged records.  A JavaScript string is a         *)
(* sequence of tokens, each token a piece of text that is never split      *)
(* (the literal pieces of the VPC pattern are tokens of their own), so     *)
(* that concatenation, splitting and pattern search are computed.          *)
(* A JavaScript object is a function from its own keys to values; a key    *)
(* the object lacks is outside the function's DOMAIN.                      *)
(***************************************************************************)
EXTENDS Integers, Sequences, FiniteSets, TLC

VARIABLES
    functions,   \* serverless.service.functions: <<[functionName, funcObject]>> in key order
    provider,    \* serverless.service.provider (without compiledConfigurationTemplate)
    package,     \* serverless.service.package
    resources,   \* serverless.service.provider.compiledConfigurationTemplate.resources
    log,         \* what serverless.cli.log has received
    pc,          \* "idle" (no call running) or "forEach" (inside the loop of a call)
    index,       \* position of forEach in getAllFunctions()
    outcome,     \* how the last call ended: none, resolved, or threw with an error
    entry,       \* resources and log length when the running (or last) call was entered
    calls        \* what each finished call appended, logged and ended with

vars == <<functions, provider, package, resources, log, pc, index, outcome, entry, calls>>

-----------------------------------------------------------------------------
(* Bounds of the model. *)

MaxFunctions == 2
MaxCalls == 2

-----------------------------------------------------------------------------
(* JavaScript values. *)

Undefined == [t |-> "undefined"]
Null == [t |-> "null"]
Str(s) == [t |-> "string", v |-> s]
Num(n) == [t |-> "number", v |-> n]
Obj(m) == [t |-> "object", v |-> m]
Arr(s) == [t |-> "array", v |-> s]

EmptyObject == [k \in {} |-> Undefined]

\* ToBoolean: undefined, null, "", 0 are falsy; objects and arrays are truthy.
Truthy(x) ==
    CASE x.t = "undefined" -> FALSE
      [] x.t = "null" -> FALSE
      [] x.t = "string" -> x.v # <<>>
      [] x.t = "number" -> x.v # 0
      [] OTHER -> TRUE

\* a || b
Or(a, b) == IF Truthy(a) THEN a ELSE b

\* typeof x === 'string'
IsString(x) == x.t = "string"

\* _.get(object, key) and object.key on a plain object
Get(o, k) == IF k \in DOMAIN o THEN o[k] ELSE Undefined

\* object.key = value
Assign(o, k, x) == [y \in DOMAIN o \cup {k} |-> IF y = k THEN x ELSE o[y]]

\* delete object.key
Delete(o, k) == [y \in DOMAIN o \ {k} |-> o[y]]

\* _.assign(target, source): the source's keys win
AssignAll(target, source) ==
    [y \in DOMAIN target \cup DOMAIN source |->
        IF y \in DOMAIN source THEN source[y] ELSE target[y]]

\* _.size(value): keys of an object, length of a string or array, else 0
Size(x) ==
    CASE x.t = "object" -> Cardinality(DOMAIN x.v)
      [] x.t = "string" -> Len(x.v)
      [] x.t = "array" -> Len(x.v)
      [] OTHER -> 0

\* `${value}` in a template literal
TemplateString(x) ==
    CASE x.t = "string" -> x.v
      [] x.t = "undefined" -> <<"undefined">>
      [] x.t = "null" -> <<"null">>
      [] OTHER -> <<"[object Object]">>

\* Object.keys(object)[0] of an object with at most one key
FirstKey(o) == IF DOMAIN o = {} THEN "undefined" ELSE CHOOSE k \in DOMAIN o : TRUE

-----------------------------------------------------------------------------
(* Strings of the program. *)

PathSep == "/"
DefaultRegion == Str(<<"us-central1">>)
DefaultTimeout == Str(<<"60s">>)
DefaultMemory == 256
TemplateType == Str(<<"gcp-types/cloudfunctions-v1:projects.locations.functions">>)

\* artifactFilePath.split(path.sep).pop(): the text after the last separator
RECURSIVE LastSegment(_)
LastSegment(s) ==
    IF s = <<>> THEN <<>>
    ELSE IF s[Len(s)] = PathSep THEN <<>>
    ELSE LastSegment(SubSeq(s, 1, Len(s) - 1)) \o <<s[Len(s)]>>

\* the /i flag: the pattern's literals in another case
ToLower(tok) ==
    CASE tok = "PROJECTS/" -> "projects/"
      [] tok = "/LOCATIONS/" -> "/locations/"
      [] tok = "/Connectors/" -> "/connectors/"
      [] OTHER -> tok

\* /projects\/[\s\S]*\/locations\/[\s\S]*\/connectors\/[\s\S]*/i.test(s):
\* an unanchored search, so text before "projects/" and after the connector is allowed
vpcNamePattern(s) ==
    \E a \in 1..Len(s) : \E b \in (a + 1)..Len(s) : \E c \in (b + 1)..Len(s) :
        /\ ToLower(s[a]) = "projects/"
        /\ ToLower(s[b]) = "/locations/"
        /\ ToLower(s[c]) = "/connectors/"

-----------------------------------------------------------------------------
(* Validation.  A validator yields NoError or the Error it throws. *)

NoError == [thrown |-> FALSE]
Error(message) == [thrown |-> TRUE, message |-> message]

MissingHandlerMessage(functionName) ==
    <<"Missing handler property for function ">> \o functionName
        \o <<". Your function needs a handler.", " Please check the docs for more info.">>

InvalidVpcMessage(functionName) ==
    <<"The function ">> \o functionName
        \o <<" has invalid vpc connection name",
             " VPC Connector name should follow projects/{project_id}/locations/{region}/connectors/{connector_name}",
             " Please check the docs for more info.">>

InvalidEventsMessage(functionName) ==
    <<"Invalid events property for function ">> \o functionName

validateHandlerProperty(funcObject, functionName) ==
    IF ~Truthy(Get(funcObject, "handler"))
    THEN Error(MissingHandlerMessage(functionName))
    ELSE NoError

\* The event kinds of the data model.
SupportedEvents == {"http", "event"}

\* An event is a mapping with a single key, the event kind.
WellFormedEvent(event) ==
    /\ Cardinality(DOMAIN event) = 1
    /\ DOMAIN event \subseteq SupportedEvents

\* require('../../shared/validate').validateEventsProperty: fails when the events
\* list is absent, empty or malformed.
validateEventsProperty(funcObject, functionName) ==
    LET events == Get(funcObject, "events")
    IN  IF \/ events.t # "array"
           \/ events.v = <<>>
           \/ \E n \in 1..Len(events.v) : ~WellFormedEvent(events.v[n])
        THEN Error(InvalidEventsMessage(functionName))
        ELSE NoError

validateVpcConnectorProperty(funcObject, functionName) ==
    LET vpc == Get(funcObject, "vpc")
    IN  IF Truthy(vpc) /\ IsString(vpc) /\ ~vpcNamePattern(vpc.v)
        THEN Error(InvalidVpcMessage(functionName))
        ELSE NoError

\* Mutant of Validate: the vpc check runs before the handler check.
Validate_VpcFirst(funcObject, functionName) ==
    LET handlerError == validateHandlerProperty(funcObject, functionName)
        eventsError == validateEventsProperty(funcObject, functionName)
        vpcError == validateVpcConnectorProperty(funcObject, functionName)
    IN  IF vpcError.thrown THEN vpcError
        ELSE IF handlerError.thrown THEN handlerError
        ELSE eventsError

\* Lines 25-27: the three validators in call order; the first throw ends the callback.
Validate(funcObject, functionName) ==
    LET handlerError == validateHandlerProperty(funcObject, functionName)
        eventsError == validateEventsProperty(funcObject, functionName)
        vpcError == validateVpcConnectorProperty(funcObject, functionName)
    IN  IF handlerError.thrown THEN handlerError
        ELSE IF eventsError.thrown THEN eventsError
        ELSE vpcError

-----------------------------------------------------------------------------
(* Collaborators on this.provider. *)

\* this.provider.getRuntime(funcObject): the runtime identifier for a declaration
getRuntime(funcObject) == Str(<<"nodejs18">>)

\* this.provider.getConfiguredEnvironment(funcObject): the provider's environment
\* variables overlaid with the declaration's
getConfiguredEnvironment(funcObject, providerObject) ==
    LET ofProvider == Get(providerObject, "environmentVariables")
        ofFunction == Get(funcObject, "environmentVariables")
        base == IF ofProvider.t = "object" THEN ofProvider.v ELSE EmptyObject
        over == IF ofFunction.t = "object" THEN ofFunction.v ELSE EmptyObject
    IN  Obj(AssignAll(base, over))

-----------------------------------------------------------------------------
(* Template construction. *)

getFunctionTemplate(funcObject, projectName, region, sourceArchiveUrl) ==
    [type |-> TemplateType,
     name |-> Get(funcObject, "name"),
     properties |->
        [parent |-> Str(<<"projects/">> \o TemplateString(projectName)
                        \o <<"/locations/">> \o TemplateString(region)),
         availableMemoryMb |-> Num(DefaultMemory),
         runtime |-> Str(<<"nodejs10">>),
         timeout |-> DefaultTimeout,
         entryPoint |-> Get(funcObject, "handler"),
         function |-> Get(funcObject, "name"),
         sourceArchiveUrl |-> sourceArchiveUrl]]

\* Line 33: gs://<deploymentBucketName>/<artifactFilePath>
SourceArchiveUrl(providerObject, packageObject) ==
    Str(<<"gs://">> \o TemplateString(Get(providerObject, "deploymentBucketName"))
            \o <<"/">> \o TemplateString(Get(packageObject, "artifactFilePath")))

\* Mutant of OverlayDefaults: the provider's memorySize and timeout win over the declaration's.
OverlayDefaults_ProviderFirst(properties, funcObject, providerObject) ==
    LET p1 == Assign(properties, "serviceAccountEmail",
                     Or(Or(Get(funcObject, "serviceAccountEmail"),
                           Get(providerObject, "serviceAccountEmail")), Null))
        p2 == Assign(p1, "availableMemoryMb",
                     Or(Or(Get(providerObject, "memorySize"),
                           Get(funcObject, "memorySize")), Num(DefaultMemory)))
        p3 == Assign(p2, "runtime", getRuntime(funcObject))
        p4 == Assign(p3, "timeout",
                     Or(Or(Get(providerObject, "timeout"),
                           Get(funcObject, "timeout")), DefaultTimeout))
        p5 == Assign(p4, "environmentVariables",
                     getConfiguredEnvironment(funcObject, providerObject))
    IN  IF ~Truthy(p5["serviceAccountEmail"]) THEN Delete(p5, "serviceAccountEmail") ELSE p5

\* Lines 36-52: serviceAccountEmail, memory, runtime, timeout, environment
OverlayDefaults(properties, funcObject, providerObject) ==
    LET p1 == Assign(properties, "serviceAccountEmail",
                     Or(Or(Get(funcObject, "serviceAccountEmail"),
                           Get(providerObject, "serviceAccountEmail")), Null))
        p2 == Assign(p1, "availableMemoryMb",
                     Or(Or(Get(funcObject, "memorySize"),
                           Get(providerObject, "memorySize")), Num(DefaultMemory)))
        p3 == Assign(p2, "runtime", getRuntime(funcObject))
        p4 == Assign(p3, "timeout",
                     Or(Or(Get(funcObject, "timeout"),
                           Get(providerObject, "timeout")), DefaultTimeout))
        p5 == Assign(p4, "environmentVariables",
                     getConfiguredEnvironment(funcObject, providerObject))
    IN  IF ~Truthy(p5["serviceAccountEmail"]) THEN Delete(p5, "serviceAccountEmail") ELSE p5

\* Mutant of NetworkField: the key is set whenever the merged value is truthy.
NetworkField_MergedGate(properties, funcObject, providerObject, field, key) ==
    IF Truthy(Or(Get(funcObject, field), Get(providerObject, field)))
    THEN Assign(properties, key, Or(Get(funcObject, field), Get(providerObject, field)))
    ELSE properties

\* Lines 54-70: one networking key, set only when the declaration's own field is truthy
NetworkField(properties, funcObject, providerObject, field, key) ==
    IF Truthy(Get(funcObject, field))
    THEN Assign(properties, key, Or(Get(funcObject, field), Get(providerObject, field)))
    ELSE properties

\* Mutant of OverlayNetwork: an empty environment is left in place.
OverlayNetwork_KeepEmptyEnvironment(properties, funcObject, providerObject) ==
    LET p1 == NetworkField(properties, funcObject, providerObject, "vpc", "vpcConnector")
        p2 == NetworkField(p1, funcObject, providerObject, "egress", "vpcConnectorEgressSettings")
        p3 == NetworkField(p2, funcObject, providerObject, "ingress", "ingressSettings")
    IN  IF Truthy(Get(funcObject, "maxInstances"))
        THEN Assign(p3, "maxInstances", Get(funcObject, "maxInstances"))
        ELSE p3

\* Lines 54-78: vpc, egress, ingress, maxInstances, then the empty environment is dropped
OverlayNetwork(properties, funcObject, providerObject) ==
    LET p1 == NetworkField(properties, funcObject, providerObject, "vpc", "vpcConnector")
        p2 == NetworkField(p1, funcObject, providerObject, "egress", "vpcConnectorEgressSettings")
        p3 == NetworkField(p2, funcObject, providerObject, "ingress", "ingressSettings")
        p4 == IF Truthy(Get(funcObject, "maxInstances"))
              THEN Assign(p3, "maxInstances", Get(funcObject, "maxInstances"))
              ELSE p3
    IN  IF Size(p4["environmentVariables"]) = 0 THEN Delete(p4, "environmentVariables") ELSE p4

\* Lines 80-84: provider labels overlaid with the declaration's
MergeLabels(funcObject, providerObject) ==
    LET ofProvider == Or(Get(providerObject, "labels"), Obj(EmptyObject))
        ofFunction == Or(Get(funcObject, "labels"), Obj(EmptyObject))
    IN  Obj(AssignAll(AssignAll(EmptyObject, ofProvider.v), ofFunction.v))

\* Lines 95-102: the eventTrigger of an event entry
EventTrigger(event) ==
    LET base == [eventType |-> Get(event.v, "eventType")]
        withPath == IF Truthy(Get(event.v, "path"))
                    THEN Assign(base, "path", Get(event.v, "path"))
                    ELSE base
    IN  Obj(Assign(withPath, "resource", Get(event.v, "resource")))

\* Mutant of ResolveTrigger: the last event of the list is consulted.
ResolveTrigger_LastEvent(properties, funcObject) ==
    LET events == Get(funcObject, "events").v
        last == events[Len(events)]
        eventType == FirstKey(last)
        p1 == IF eventType = "http"
              THEN Assign(properties, "httpsTrigger", Obj([url |-> last["http"]]))
              ELSE properties
    IN  IF eventType = "event"
        THEN Assign(p1, "eventTrigger", EventTrigger(last["event"]))
        ELSE p1

\* Lines 86-103: the trigger, from the first key of the first event
ResolveTrigger(properties, funcObject) ==
    LET first == Get(funcObject, "events").v[1]
        eventType == FirstKey(first)
        p1 == IF eventType = "http"
              THEN Assign(properties, "httpsTrigger", Obj([url |-> first["http"]]))
              ELSE properties
    IN  IF eventType = "event"
        THEN Assign(p1, "eventTrigger", EventTrigger(first["event"]))
        ELSE p1

\* Lines 29-103: the template the callback pushes for a declaration that passed validation
CompileTemplate(funcObject, providerObject, packageObject) ==
    LET funcTemplate == getFunctionTemplate(funcObject,
                            Get(providerObject, "project"),
                            Get(providerObject, "region"),
                            SourceArchiveUrl(providerObject, packageObject))
        p1 == OverlayDefaults(funcTemplate.properties, funcObject, providerObject)
        p2 == OverlayNetwork(p1, funcObject, providerObject)
        p3 == Assign(p2, "labels", MergeLabels(funcObject, providerObject))
        p4 == ResolveTrigger(p3, funcObject)
    IN  [funcTemplate EXCEPT !.properties = p4]

-----------------------------------------------------------------------------
(* The service. *)

\* this.serverless.service.getAllFunctions(): the declared names, in key order
getAllFunctions == [n \in 1..Len(functions) |-> functions[n].functionName]

\* this.serverless.service.getFunction(functionName)
getFunction(functionName) ==
    functions[CHOOSE n \in 1..Len(functions) : functions[n].functionName = functionName].funcObject

\* Line 23: the progress notice
LogLine(functionName) == <<"Compiling function ">> \o functionName \o <<"...">>

\* Mutant of ArtifactFilePath: the path is built on the previous artifactFilePath.
ArtifactFilePath_Accumulate(packageObject) ==
    Str(TemplateString(Get(packageObject, "artifactFilePath")) \o <<"/">>
            \o LastSegment(Get(packageObject, "artifact").v))

\* Lines 13-14 and 18: <artifactDirectoryName>/<file name of the artifact>
ArtifactFilePath(packageObject) ==
    Str(TemplateString(Get(packageObject, "artifactDirectoryName")) \o <<"/">>
            \o LastSegment(Get(packageObject, "artifact").v))

\* Mutant of Push: unshift, the template goes to the front.
Push_Unshift(array, item) == <<item>> \o array

\* Mutant of Push: the sequence is replaced by the new template alone.
Push_Replace(array, item) == <<item>>

\* Line 105: resources.push(funcTemplate)
Push(array, item) == Append(array, item)


\* What a finished call leaves in the record of calls.
CallRecord(status, error, resourcesAfter, logAfter) ==
    [status |-> status,
     error |-> error,
     appended |-> SubSeq(resourcesAfter, Len(entry.resources) + 1, Len(resourcesAfter)),
     logged |-> SubSeq(logAfter, entry.log + 1, Len(logAfter))]

-----------------------------------------------------------------------------
(* Actions. *)

\* Lines 12-19: compileFunctions() is entered; region and artifactFilePath are set in place.
Begin ==
    /\ pc = "idle"
    /\ Len(calls) < MaxCalls
    /\ provider' = Assign(provider, "region", Or(Get(provider, "region"), DefaultRegion))
    /\ package' = Assign(package, "artifactFilePath", ArtifactFilePath(package))
    /\ entry' = [resources |-> resources, log |-> Len(log)]
    /\ outcome' = [status |-> "running"]
    /\ index' = 1
    /\ pc' = "forEach"
    /\ UNCHANGED <<functions, resources, log, calls>>

\* Lines 20-106: the callback runs to its end for the next function name.
CompileFunction ==
    /\ pc = "forEach"
    /\ index <= Len(getAllFunctions)
    /\ LET functionName == getAllFunctions[index]
           funcObject == getFunction(functionName)
       IN  /\ ~Validate(funcObject, functionName).thrown
           /\ log' = Append(log, LogLine(functionName))
           /\ resources' = Push(resources, CompileTemplate(funcObject, provider, package))
    /\ index' = index + 1
    /\ UNCHANGED <<functions, provider, package, pc, outcome, entry, calls>>

\* Lines 20-27: a validator throws; the error leaves forEach and compileFunctions.
CallbackThrows ==
    /\ pc = "forEach"
    /\ index <= Len(getAllFunctions)
    /\ LET functionName == getAllFunctions[index]
           funcObject == getFunction(functionName)
           error == Validate(funcObject, functionName)
       IN  /\ error.thrown
           /\ log' = Append(log, LogLine(functionName))
           /\ outcome' = [status |-> "threw", error |-> error]
           /\ calls' = Append(calls, CallRecord("threw", error, resources, log'))
    /\ pc' = "idle"
    /\ UNCHANGED <<functions, provider, package, resources, index, entry>>

\* Line 108: forEach is over; the resolved promise is returned.
Return ==
    /\ pc = "forEach"
    /\ index > Len(getAllFunctions)
    /\ outcome' = [status |-> "resolved"]
    /\ calls' = Append(calls, CallRecord("resolved", NoError, resources, log))
    /\ pc' = "idle"
    /\ UNCHANGED <<functions, provider, package, resources, log, index, entry>>

Next == Begin \/ CompileFunction \/ CallbackThrows \/ Return

-----------------------------------------------------------------------------
(* The services the model starts from. *)

\* Sets or clears a key: an undefined value stands for a key left out.
With(o, k, x) == IF x = Undefined THEN Delete(o, k) ELSE Assign(o, k, x)

FunctionName(n) == <<"func", ToString(n)>>
DeployedName(n) == Str(<<"svc-dev-func", ToString(n)>>)

HttpEvent == [http |-> Str(<<"path">>)]
StorageEvent ==
    [event |-> Obj([eventType |-> Str(<<"google.storage.object.finalize">>),
                    resource |-> Str(<<"my-bucket">>)])]
PubSubEvent ==
    [event |-> Obj([eventType |-> Str(<<"providers/cloud.pubsub/eventTypes/topic.publish">>),
                    resource |-> Str(<<"projects/*/topics/my-topic">>),
                    path |-> Str(<<"some-path">>)])]
TimerEvent == [schedule |-> Str(<<"rate(1 hour)">>)]

ConnectorName == Str(<<"projects/", "p", "/locations/", "r", "/connectors/", "c">>)
UpperConnectorName == Str(<<"PROJECTS/", "p", "/LOCATIONS/", "r", "/Connectors/", "c">>)
ShortConnectorName == Str(<<"my-connector">>)
PrefixedConnectorName == Str(<<"https://vpcaccess.googleapis.com/v1/">> \o ConnectorName.v)
TruncatedConnectorName == Str(<<"projects/", "p", "/locations/", "r">>)

BaseFunction == [handler |-> Str(<<"index.handler">>), events |-> Arr(<<HttpEvent>>)]

BaseProvider ==
    [project |-> Str(<<"my-project">>),
     deploymentBucketName |-> Str(<<"sls-bucket">>)]

BasePackage ==
    [artifact |-> Str(<<".serverless", "/", "svc.zip">>),
     artifactDirectoryName |-> Str(<<"serverless/svc/dev/1700000000">>)]

\* A resource another compile step has already put into the template.
DeploymentBucket == [type |-> Str(<<"storage.v1.bucket">>), name |-> Str(<<"sls-bucket">>)]

\* The service holds up to MaxFunctions declarations drawn from Declarations, named
\* by position, and a provider drawn from Providers; nothing has been compiled yet.
InitWith(Declarations, Providers, Resources) ==
    /\ \E len \in 0..MaxFunctions : \E d \in [1..len -> Declarations] :
          functions = [n \in 1..len |->
                          [functionName |-> FunctionName(n),
                           funcObject |-> Assign(d[n], "name", DeployedName(n))]]
    /\ provider \in Providers
    /\ package = BasePackage
    /\ resources \in Resources
    /\ log = <<>>
    /\ pc = "idle"
    /\ index = 1
    /\ outcome = [status |-> "none"]
    /\ entry = [resources |-> resources, log |-> 0]
    /\ calls = <<>>

\* Declarations that differ in what validation looks at.
ValidationDeclarations ==
    {With(With(With(BaseFunction, "handler", h), "events", e), "vpc", v) :
        h \in {Undefined, Str(<<>>), Str(<<"index.handler">>)},
        e \in {Arr(<<>>), Arr(<<HttpEvent>>), Arr(<<StorageEvent>>)},
        v \in {Undefined, ConnectorName, ShortConnectorName}}

RegionProviders ==
    {With(BaseProvider, "region", r) : r \in {Undefined, Str(<<"europe-west1">>)}}

Init == InitWith(ValidationDeclarations, RegionProviders, {<<>>, <<DeploymentBucket>>})

Spec == Init /\ [][Next]_vars

\* A declaration that fails validation, so that every service family has failing passes.
NoHandlerFunction == Delete(BaseFunction, "handler")

\* Declarations that differ in their events list.
TriggerDeclarations ==
    {With(BaseFunction, "events", e) :
        e \in {Undefined, Arr(<<>>), Arr(<<HttpEvent>>), Arr(<<StorageEvent>>),
               Arr(<<PubSubEvent>>), Arr(<<TimerEvent>>), Arr(<<HttpEvent, StorageEvent>>),
               Arr(<<PubSubEvent, HttpEvent>>)}}
        \cup {NoHandlerFunction}

InitTrigger == InitWith(TriggerDeclarations, RegionProviders, {<<DeploymentBucket>>})

SpecTrigger == InitTrigger /\ [][Next]_vars

\* Declarations that differ in their vpc, with and without a handler.
VpcDeclarations ==
    {With(With(BaseFunction, "handler", h), "vpc", v) :
        h \in {Undefined, Str(<<"index.handler">>)},
        v \in {Undefined, Str(<<>>), ConnectorName, UpperConnectorName, ShortConnectorName,
               PrefixedConnectorName, TruncatedConnectorName, Obj([name |-> ConnectorName])}}

VpcProviders == {With(BaseProvider, "vpc", v) : v \in {Undefined, ConnectorName}}

InitVpc == InitWith(VpcDeclarations, VpcProviders, {<<DeploymentBucket>>})

SpecVpc == InitVpc /\ [][Next]_vars

\* Declarations and providers that differ in memorySize and timeout.
DefaultsDeclarations ==
    {With(With(BaseFunction, "memorySize", m), "timeout", t) :
        m \in {Undefined, Num(0), Num(512)},
        t \in {Undefined, Str(<<>>), Str(<<"120s">>)}}
        \cup {NoHandlerFunction}

DefaultsProviders ==
    {With(With(BaseProvider, "memorySize", m), "timeout", t) :
        m \in {Undefined, Num(128)},
        t \in {Undefined, Str(<<"30s">>)}}

InitDefaults == InitWith(DefaultsDeclarations, DefaultsProviders, {<<DeploymentBucket>>})

SpecDefaults == InitDefaults /\ [][Next]_vars

\* Declarations and providers that differ in serviceAccountEmail and environment.
OmissionDeclarations ==
    {With(With(BaseFunction, "serviceAccountEmail", a), "environmentVariables", e) :
        a \in {Undefined, Str(<<>>), Str(<<"fn@my-project.iam">>)},
        e \in {Undefined, Obj(EmptyObject), Obj([KEY |-> Str(<<"value">>)])}}
        \cup {NoHandlerFunction}

OmissionProviders ==
    {With(With(BaseProvider, "serviceAccountEmail", a), "environmentVariables", e) :
        a \in {Undefined, Str(<<"svc@my-project.iam">>)},
        e \in {Undefined, Obj([STAGE |-> Str(<<"dev">>)])}}

InitOmission == InitWith(OmissionDeclarations, OmissionProviders, {<<DeploymentBucket>>})

SpecOmission == InitOmission /\ [][Next]_vars

\* Declarations and providers that differ in vpc, egress, ingress, maxInstances and labels.
NetworkDeclarations ==
    {With(With(With(BaseFunction, "vpc", v), "egress", e), "ingress", g) :
        v \in {Undefined, ConnectorName},
        e \in {Undefined, Str(<<"ALL_TRAFFIC">>)},
        g \in {Undefined, Str(<<"ALLOW_ALL">>)}}
        \cup {NoHandlerFunction,
              Assign(BaseFunction, "maxInstances", Num(5)),
              Assign(BaseFunction, "labels", Obj([team |-> Str(<<"fn">>)]))}

NetworkProviders ==
    {With(With(With(BaseProvider, "vpc", v), "egress", e), "ingress", g) :
        v \in {Undefined, UpperConnectorName},
        e \in {Undefined, Str(<<"PRIVATE_RANGES_ONLY">>)},
        g \in {Undefined, Str(<<"ALLOW_INTERNAL_ONLY">>)}}
        \cup {Assign(BaseProvider, "labels", Obj([team |-> Str(<<"all">>), app |-> Str(<<"svc">>)]))}

InitNetwork == InitWith(NetworkDeclarations, NetworkProviders, {<<DeploymentBucket>>})

SpecNetwork == InitNetwork /\ [][Next]_vars

-----------------------------------------------------------------------------
(* What the properties below speak about. *)

\* The templates the running (or last) call has pushed, and what it has logged.
Appended == SubSeq(resources, Len(entry.resources) + 1, Len(resources))
Logged == SubSeq(log, entry.log + 1, Len(log))

Declaration(n) == functions[n].funcObject
Passes(n) == ~Validate(Declaration(n), functions[n].functionName).thrown
Finished == pc = "idle" /\ outcome.status \in {"resolved", "threw"}
Has(template, key) == key \in DOMAIN template.properties

\* C1: when every declaration passes validation, a finished pass has appended exactly
\* one template per declaration, and the n-th appended template carries the n-th
\* declaration's name as its name and as properties.function.
C1_OneTemplatePerDeclarationInOrder ==
    (Finished /\ \A n \in 1..Len(functions) : Passes(n)) =>
        /\ outcome.status = "resolved"
        /\ Len(Appended) = Len(functions)
        /\ \A n \in 1..Len(functions) :
              /\ Appended[n].name = Declaration(n)["name"]
              /\ Appended[n].properties["function"] = Declaration(n)["name"]

C1_Witness ==
    /\ Finished
    /\ outcome.status = "resolved"
    /\ Len(functions) >= 2
    /\ Len(Appended) = Len(functions)
    /\ Appended[1].name # Appended[2].name

\* C2: a pass that fails on a validation error leaves no template of its own in the
\* resources sequence, wherever the failing declaration sits.
C2_FailedPassAppendsNothing ==
    outcome.status = "threw" => resources = entry.resources

ConformsToConnectorName(s) ==
    /\ Len(s) >= 3
    /\ ToLower(s[1]) = "projects/"
    /\ \E b \in 2..Len(s) : \E c \in (b + 1)..Len(s) :
          ToLower(s[b]) = "/locations/" /\ ToLower(s[c]) = "/connectors/"

\* C4: for a declaration whose vpc is a non-empty string (and that got as far as the vpc
\* check): a string that does not conform makes the pass fail there with the invalid-vpc
\* error and no template is built for it; a conforming one compiles and is emitted as
\* vpcConnector unchanged.
C4_VpcNameDecidesCompilation ==
    \A n \in 1..Len(functions) :
        LET vpc == Get(Declaration(n), "vpc")
            reachesVpcCheck ==
                /\ ~validateHandlerProperty(Declaration(n), functions[n].functionName).thrown
                /\ ~validateEventsProperty(Declaration(n), functions[n].functionName).thrown
        IN  (IsString(vpc) /\ vpc.v # <<>> /\ reachesVpcCheck) =>
                IF ConformsToConnectorName(vpc.v)
                THEN /\ ~(outcome.status = "threw" /\ index = n)
                     /\ Len(Appended) >= n => Appended[n].properties["vpcConnector"] = vpc
                ELSE /\ Len(Appended) < n
                     /\ (outcome.status = "threw" /\ index = n) =>
                            outcome.error = Error(InvalidVpcMessage(functions[n].functionName))

\* C5: at every moment of every pass, failing or not, what the resources sequence held
\* when the pass was entered is still its prefix.
C5_ResourcesOnlyGrowAtTheEnd ==
    /\ Len(entry.resources) <= Len(resources)
    /\ SubSeq(resources, 1, Len(entry.resources)) = entry.resources

C5_Witness ==
    /\ outcome.status = "threw"
    /\ entry.resources # <<>>
    /\ Len(resources) > Len(entry.resources)

\* C6: availableMemoryMb is the declaration's memorySize when it has one (a truthy value),
\* else the provider's when it has one, else 256; timeout likewise with "60s".
C6_MemoryAndTimeoutPrecedence ==
    \A n \in 1..Len(Appended) :
        LET ofFunction(field) == Get(Declaration(n), field)
            ofProvider(field) == Get(provider, field)
            expected(field, fallback) ==
                IF Truthy(ofFunction(field)) THEN ofFunction(field)
                ELSE IF Truthy(ofProvider(field)) THEN ofProvider(field)
                ELSE fallback
        IN  /\ Appended[n].properties["availableMemoryMb"] = expected("memorySize", Num(256))
            /\ Appended[n].properties["timeout"] = expected("timeout", Str(<<"60s">>))

C6_Witness ==
    /\ Len(Appended) >= 2
    /\ Get(provider, "memorySize") = Num(128)
    /\ Get(Declaration(1), "memorySize") = Num(512)
    /\ Appended[1].properties["availableMemoryMb"] = Num(512)
    /\ ~Truthy(Get(Declaration(2), "memorySize"))
    /\ Appended[2].properties["availableMemoryMb"] = Num(128)
    /\ Get(Declaration(2), "timeout") = Str(<<"120s">>)
    /\ Get(provider, "timeout") = Str(<<"30s">>)

\* C7: serviceAccountEmail is a key of properties only when the declaration's value, else
\* the provider's, is non-empty, and environmentVariables only when the resolved
\* environment has entries; neither is ever there with a null or empty value.
C7_NoEmptyServiceAccountOrEnvironment ==
    \A n \in 1..Len(Appended) :
        LET merged == Or(Get(Declaration(n), "serviceAccountEmail"),
                         Get(provider, "serviceAccountEmail"))
            resolved == getConfiguredEnvironment(Declaration(n), provider)
            properties == Appended[n].properties
        IN  /\ Has(Appended[n], "serviceAccountEmail") =>
                  /\ Truthy(merged)
                  /\ properties["serviceAccountEmail"] = merged
            /\ Has(Appended[n], "environmentVariables") =>
                  /\ Size(resolved) > 0
                  /\ properties["environmentVariables"] = resolved

C7_Witness ==
    /\ Len(Appended) >= 2
    /\ ~Has(Appended[1], "serviceAccountEmail")
    /\ ~Has(Appended[1], "environmentVariables")
    /\ Get(Declaration(1), "serviceAccountEmail") = Str(<<>>)
    /\ Get(Declaration(1), "environmentVariables") = Obj(EmptyObject)
    /\ Has(Appended[2], "serviceAccountEmail")
    /\ Has(Appended[2], "environmentVariables")

\* C8: every call on the same service appends the same sequence of templates as the
\* first one did, also when the first call filled in provider.region.
C8_SecondCallAppendsTheSame ==
    \A a \in 1..Len(calls) : calls[a].appended = calls[1].appended

C8_Witness ==
    /\ Len(calls) >= 2
    /\ calls[2].status = "resolved"
    /\ Len(calls[2].appended) >= 2
    /\ provider["region"] = DefaultRegion

\* The position of the first declaration that fails validation (0 when none does).
FirstInvalid ==
    IF \A n \in 1..Len(functions) : Passes(n) THEN 0
    ELSE CHOOSE k \in 1..Len(functions) : ~Passes(k) /\ \A n \in 1..(k - 1) : Passes(n)

\* The error of a declaration that fails validation: handler first, then events, then vpc.
ExpectedError(n) ==
    LET name == functions[n].functionName
    IN  IF ~Truthy(Get(Declaration(n), "handler")) THEN Error(MissingHandlerMessage(name))
        ELSE IF validateEventsProperty(Declaration(n), name).thrown
             THEN Error(InvalidEventsMessage(name))
        ELSE Error(InvalidVpcMessage(name))

\* C9: a pass logs and compiles the declarations in input order and stops at the first
\* one that fails validation: the error is that declaration's, nothing after it is
\* logged, and no template for it or a later one is appended.
C9_StopsAtFirstInvalid ==
    /\ \A n \in 1..Len(Logged) : Logged[n] = LogLine(functions[n].functionName)
    /\ Len(Appended) <= Len(Logged)
    /\ Len(Logged) <= Len(Appended) + 1
    /\ FirstInvalid # 0 => Len(Appended) < FirstInvalid /\ Len(Logged) <= FirstInvalid
    /\ outcome.status = "threw" =>
          /\ index = FirstInvalid
          /\ outcome.error = ExpectedError(index)
          /\ Len(Logged) = index
          /\ Len(Appended) = index - 1
    /\ (Finished /\ FirstInvalid # 0) => outcome.status = "threw"

C9_Witness ==
    /\ outcome.status = "threw"
    /\ index = 2
    /\ Len(functions) >= 2
    /\ ~Truthy(Get(Declaration(2), "handler"))
    /\ Truthy(Get(Declaration(2), "vpc"))
    /\ Len(Appended) = 1

\* C10: vpcConnector, vpcConnectorEgressSettings and ingressSettings are keys of properties
\* exactly when the declaration's own vpc, egress, ingress is truthy, whatever the provider
\* holds, and the value emitted is the declaration's.
C10_NetworkKeysFollowDeclaration ==
    \A n \in 1..Len(Appended) :
        \A pair \in {<<"vpc", "vpcConnector">>, <<"egress", "vpcConnectorEgressSettings">>,
                     <<"ingress", "ingressSettings">>} :
            LET own == Get(Declaration(n), pair[1])
            IN  /\ Has(Appended[n], pair[2]) <=> Truthy(own)
                /\ Has(Appended[n], pair[2]) => Appended[n].properties[pair[2]] = own

C10_Witness ==
    /\ Len(Appended) >= 2
    /\ Truthy(Get(provider, "vpc"))
    /\ Truthy(Get(provider, "egress"))
    /\ Truthy(Get(provider, "ingress"))
    /\ ~Has(Appended[1], "vpcConnector")
    /\ ~Has(Appended[1], "vpcConnectorEgressSettings")
    /\ ~Has(Appended[1], "ingressSettings")
    /\ Has(Appended[2], "vpcConnector")
    /\ Appended[2].properties["vpcConnector"] # provider["vpc"]

====
